---- MODULE Spec2Model ----
(***************************************************************************)
(* A model of the CANParser frame pipeline (can_parser/src/lib.rs), the    *)
(* identifier decoder and SPN extractor (can_message.rs) and the JSON      *)
(* annex lookup (j1939_spec.rs).                                           *)
(*                                                                         *)
(* Conventions.                                                            *)
(*  - A captured string is a sequence of character codes: 0..15 is the hex *)
(*    digit of that value (either case), PLUS is '+', NONHEX is any other  *)
(*    character.                                                           *)
(*  - A u32 is the set of its one bits (a subset of 0..31), so that the    *)
(*    masks and shifts of the source keep their width.                     *)
(*  - f32/f64 quantities are integers here; the annexes of the model only  *)
(*    carry integer-valued resolutions, offsets and maxima, for which the  *)
(*    f32 arithmetic of the source is exact.                               *)
(***************************************************************************)
EXTENDS Integers, Sequences, FiniteSets, Bags, TLC

VARIABLES
    lines,           \* the input of parse_lines: what the regex captures on each line
    specs,           \* CANParser.specs (Option<Arc<Specs>>)
    error_handling,  \* CANParser.error_handling
    parallel,        \* cfg!(feature = "parallel")
    cache,           \* CANParser.filtered_spec.j1939 (the map behind the RwLock)
    readers,         \* workers holding a read guard of the RwLock
    taken,           \* indices of the lines some worker has started
    pc,              \* per worker: position inside parse_line_inner
    cur,             \* per worker: the line index and the message being built
    results,         \* per line: outcome of the filter_map closure
    errors,          \* the Mutex<Vec<String>> of parse_lines
    messages,        \* CANParser.messages
    status,          \* "running", or how parse_lines ended
    inserts,         \* history: the bag of PGNs of the cache inserts done
    unit             \* a call of one pure function: its input and its result

vars == <<lines, specs, error_handling, parallel, cache, readers, taken, pc, cur,
          results, errors, messages, status, inserts, unit>>

pipeVars == <<lines, specs, error_handling, parallel, cache, readers, taken, pc, cur,
              results, errors, messages, status, inserts>>

-----------------------------------------------------------------------------
(* Bounds of the model *)

NumLines == 2
NumWorkers == 2
MaxDataDigits == 130
MaxSpnBits == 16

(* Program constants *)

PayloadSize == 64
DataCharLimit == 64
U32Bits == 32
U16Bits == 16
PDU2Threshold == 240
DefaultDA == 255

PLUS == 16
NONHEX == 17

-----------------------------------------------------------------------------
(* Bit-set arithmetic *)

RECURSIVE Pow2(_)
Pow2(n) == IF n = 0 THEN 1 ELSE 2 * Pow2(n - 1)

BitsOf(n, w) == {b \in 0..(w - 1) : (n \div Pow2(b)) % 2 = 1}

RECURSIVE ToNat(_)
ToNat(x) == IF x = {} THEN 0
            ELSE LET b == CHOOSE c \in x : TRUE IN Pow2(b) + ToNat(x \ {b})

Shl(x, s) == {b + s : b \in x}
Shr(x, s) == {b - s : b \in {c \in x : c >= s}}
\* x > y on bit sets: the highest bit in which they differ is set in x
BitsGt(x, y) == \E b \in x \ y : \A c \in y \ x : c < b

-----------------------------------------------------------------------------
(* Masks and shifts of can_message.rs *)

CAN_SFF_MASK == 0..10
CAN_RTR_FLAG == {30}
CAN_ERR_FLAG == {29}
PRIORITY_MASK == {26, 27, 28}
PRIORITY_SHIFT == 26
PDU_FORMAT_MASK == 16..25
PDU_FORMAT_SHIFT == 16
PDU_SPECIFIC_MASK == 8..15
PDU_SPECIFIC_SHIFT == 8

ERROR_IGNORE == "ignore"
ERROR_WARN == "warn"

-----------------------------------------------------------------------------
(* uN::from_str_radix(s, 16): an optional leading '+', then one or more hex  *)
(* digits, accumulated by multiply-and-add with an overflow check.           *)

RECURSIVE FromStrRadixAcc(_, _, _, _)
FromStrRadixAcc(s, i, acc, width) ==
    IF i > Len(s) THEN [ok |-> TRUE, val |-> acc]
    ELSE IF s[i] > 15 THEN [ok |-> FALSE, val |-> {}]
    ELSE IF \E b \in Shl(acc, 4) : b >= width THEN [ok |-> FALSE, val |-> {}]
    ELSE FromStrRadixAcc(s, i + 1, Shl(acc, 4) \cup BitsOf(s[i], 4), width)

FromStrRadix16(s, width) ==
    LET digits == IF Len(s) > 0 /\ s[1] = PLUS THEN Tail(s) ELSE s
    IN  IF Len(digits) = 0 THEN [ok |-> FALSE, val |-> {}]
        ELSE FromStrRadixAcc(digits, 1, {}, width)

-----------------------------------------------------------------------------
(* CANMessage::default and its parts *)

DefaultCANID ==
    [id |-> {}, pri |-> 0, da |-> 0, sa |-> 0, pgn |-> 0,
     ext |-> FALSE, err |-> FALSE, rtr |-> FALSE]

EmptyMap == [x \in {} |-> 0]

DefaultCANData ==
    [len |-> 0, data |-> [i \in 1..PayloadSize |-> 0], spns |-> EmptyMap]

DefaultCANMessage == [ts |-> 0, id |-> DefaultCANID, data |-> DefaultCANData]

-----------------------------------------------------------------------------
(* parse_j1939_id: pdu_fmt is a u16, and so is pgn: the shift by 8 drops the *)
(* bits that leave the 16-bit word.                                          *)

ParseJ1939Id(can_id) ==
    LET pri      == ToNat(Shr(can_id.id \cap PRIORITY_MASK, PRIORITY_SHIFT) \cap (0..7))
        pdu_fmt  == Shr(can_id.id \cap PDU_FORMAT_MASK, PDU_FORMAT_SHIFT) \cap (0..(U16Bits - 1))
        pdu_spec == ToNat(Shr(can_id.id \cap PDU_SPECIFIC_MASK, PDU_SPECIFIC_SHIFT) \cap (0..7))
        sa       == ToNat(can_id.id \cap (0..7))
        shifted  == ToNat(Shl(pdu_fmt, 8) \cap (0..(U16Bits - 1)))
    IN  IF ToNat(pdu_fmt) >= PDU2Threshold
        THEN [can_id EXCEPT !.pri = pri, !.sa = sa, !.da = DefaultDA,
                            !.pgn = shifted + pdu_spec]
        ELSE [can_id EXCEPT !.pri = pri, !.sa = sa, !.da = pdu_spec,
                            !.pgn = shifted]

\* the extended test by the EFF flag bit, which parse_id leaves commented out
IsExtended_EffFlag(id) == 31 \in id

\* can_id.id > CAN_SFF_MASK
IsExtended(id) == BitsGt(id, CAN_SFF_MASK)

\* parse_id with the J1939 decomposition applied to every identifier
ParseId_AlwaysJ1939(str, can_id) ==
    LET r == FromStrRadix16(str, U32Bits)
    IN  IF ~r.ok THEN [panic |-> TRUE, id |-> can_id]
        ELSE [panic |-> FALSE,
              id |-> ParseJ1939Id([can_id EXCEPT !.id  = r.val,
                                                 !.ext = IsExtended(r.val),
                                                 !.err = (r.val \cap CAN_ERR_FLAG) = CAN_ERR_FLAG,
                                                 !.rtr = (r.val \cap CAN_RTR_FLAG) = CAN_RTR_FLAG])]

(* parse_id: the unwrap of from_str_radix panics when the capture is not a   *)
(* 32-bit hex number.                                                        *)
ParseId(str, can_id) ==
    LET r == FromStrRadix16(str, U32Bits)
    IN  IF ~r.ok THEN [panic |-> TRUE, id |-> can_id]
        ELSE LET withFlags ==
                     [can_id EXCEPT !.id  = r.val,
                                    !.ext = IsExtended(r.val),
                                    !.err = (r.val \cap CAN_ERR_FLAG) = CAN_ERR_FLAG,
                                    !.rtr = (r.val \cap CAN_RTR_FLAG) = CAN_RTR_FLAG]
             IN  [panic |-> FALSE,
                  id |-> IF withFlags.ext THEN ParseJ1939Id(withFlags) ELSE withFlags]

-----------------------------------------------------------------------------
(* The `data` capture of parse_line_inner: length counts characters, the     *)
(* loop steps by two characters and slices data[i..i+2].                     *)

Min(a, b) == IF a < b THEN a ELSE b

\* outcome of the loop from character offset i (0-based) on
RECURSIVE DataLoop(_, _, _, _)
DataLoop(str, length, i, buf) ==
    IF i >= length THEN [res |-> "ok", buf |-> buf]
    ELSE IF i + 2 > Len(str) THEN [res |-> "panic", buf |-> buf]
    ELSE LET byte == FromStrRadix16(SubSeq(str, i + 1, i + 2), 8)
         IN  IF ~byte.ok THEN [res |-> "err", buf |-> buf]
             ELSE DataLoop(str, length, i + 2,
                           [buf EXCEPT ![(i \div 2) + 1] = ToNat(byte.val)])

ParseDataCapture(str, data) ==
    LET length == Min(Len(str), DataCharLimit)
        loop   == DataLoop(str, length, 0, data.data)
    IN  IF loop.res = "ok"
        THEN [res |-> "ok",
              data |-> [data EXCEPT !.data = loop.buf, !.len = length \div 2]]
        ELSE [res |-> loop.res, data |-> data]

-----------------------------------------------------------------------------
(* Serialize and Deserialize of CANData. The JSON text of `data` is a        *)
(* sequence of the character codes of the captures: 0..15 the hex digits in  *)
(* upper case, of which A (10) and E (14) are vowels, and no code is the     *)
(* space. An SPN value is a whole number, so rounding it to three decimals   *)
(* gives it back.                                                            *)

HexSpaces == {}
HexVowels == {10, 14}

Filter(str, drop) == SelectSeq(str, LAMBDA c : c \notin drop)

\* process_string(input, len)
ProcessString(input, len, spaces, vowels) ==
    LET p1 == IF Len(input) > len THEN Filter(input, spaces) ELSE input
        p2 == IF Len(p1) > len THEN Filter(p1, vowels) ELSE p1
    IN  IF Len(p2) > len THEN SubSeq(p2, 1, len) ELSE p2

\* hex::encode_upper
HexEncodeUpper(bytes) ==
    [k \in 1..(2 * Len(bytes)) |->
        IF k % 2 = 1 THEN bytes[(k + 1) \div 2] \div 16 ELSE bytes[k \div 2] % 16]

RoundMilli(v) == (v * 1000) \div 1000

\* impl Serialize for CANData: res is "panic" when the slice data[..len] is
\* out of range
SerializeCANData(d) ==
    IF \A k \in 1..PayloadSize : d.data[k] = 0
    THEN [res |-> "ok", len |-> d.len, data |-> << >>,
          spns |-> [k \in DOMAIN d.spns |-> RoundMilli(d.spns[k])]]
    ELSE IF d.len > PayloadSize
    THEN [res |-> "panic", len |-> d.len, data |-> << >>, spns |-> EmptyMap]
    ELSE [res |-> "ok", len |-> d.len, data |-> HexEncodeUpper(SubSeq(d.data, 1, d.len)),
          spns |-> [k \in DOMAIN d.spns |-> RoundMilli(d.spns[k])]]

\* the chunks(2) of the processed text, each through u8::from_str_radix
RECURSIVE ChunkBytes(_, _, _)
ChunkBytes(str, i, acc) ==
    IF i > Len(str) THEN [ok |-> TRUE, bytes |-> acc]
    ELSE LET byte == FromStrRadix16(SubSeq(str, i, Min(i + 1, Len(str))), 8)
         IN  IF ~byte.ok THEN [ok |-> FALSE, bytes |-> acc]
             ELSE ChunkBytes(str, i + 2, Append(acc, ToNat(byte.val)))

\* impl Deserialize for CANData (visit_map): the bytes are collected in a Vec
\* and try_into::<[u8; 64]>().unwrap() takes it only when it has 64 elements
DeserializeCANData(j) ==
    LET processed == ProcessString(j.data, PayloadSize, HexSpaces, HexVowels)
        chunks    == ChunkBytes(processed, 1, << >>)
    IN  IF ~chunks.ok \/ Len(chunks.bytes) # PayloadSize
        THEN [res |-> "panic", data |-> DefaultCANData]
        ELSE [res |-> "ok",
              data |-> [len |-> j.len, data |-> chunks.bytes, spns |-> j.spns]]

\* serde_json::from_value(serde_json::to_value(d))
RoundTripCANData(d) ==
    LET j == SerializeCANData(d)
    IN  IF j.res = "panic" THEN [res |-> "panic", data |-> DefaultCANData]
        ELSE DeserializeCANData(j)

-----------------------------------------------------------------------------
(* string_to_slice: a string is the sequence of its ASCII characters, each a *)
(* one-character string; the result is output[..len].                        *)

LowerCase == <<"a", "b", "c", "d", "e", "f", "g", "h", "i", "j", "k", "l", "m", "n", "o", "p", "q", "r", "s", "t", "u", "v", "w", "x", "y", "z">>
UpperCase == <<"A", "B", "C", "D", "E", "F", "G", "H", "I", "J", "K", "L", "M", "N", "O", "P", "Q", "R", "S", "T", "U", "V", "W", "X", "Y", "Z">>
AsciiVowels == {"a", "e", "i", "o", "u", "A", "E", "I", "O", "U"}

\* char::to_uppercase on ASCII
ToUpperChar(c) ==
    IF \E k \in 1..26 : LowerCase[k] = c
    THEN UpperCase[CHOOSE k \in 1..26 : LowerCase[k] = c]
    ELSE c

ToUppercase(str) == [k \in 1..Len(str) |-> ToUpperChar(str[k])]

Truncate(str, len) == IF Len(str) > len THEN SubSeq(str, 1, len) ELSE str

StringToSlice(input, len) ==
    LET noSpaces == Filter(input, {" "})
        noVowels == Filter(noSpaces, AsciiVowels)
        input_chars ==
            IF input = ToUppercase(input) THEN Truncate(input, len)
            ELSE IF Len(noSpaces) > len
            THEN Truncate(noVowels, len)
            ELSE noSpaces
    IN  [k \in 1..len |-> IF k <= Len(input_chars) THEN input_chars[k] ELSE " "]

\* the zero byte of a fixed-width field
NUL == "NUL"

\* str::trim: the whitespace at both ends is removed
RECURSIVE TrimStart(_)
TrimStart(str) ==
    IF str # << >> /\ Head(str) = " " THEN TrimStart(Tail(str)) ELSE str
RECURSIVE TrimEnd(_)
TrimEnd(str) ==
    IF str # << >> /\ str[Len(str)] = " " THEN TrimEnd(SubSeq(str, 1, Len(str) - 1)) ELSE str
Trim(str) == TrimEnd(TrimStart(str))

\* serialize_u8_array: "" for an all-zero array, else the trimmed text
SerializeU8Array(array) ==
    IF \A k \in DOMAIN array : array[k] = NUL THEN << >> ELSE Trim(array)

\* deserialize_u8_array: process_string, copied into a zeroed array
DeserializeU8Array(str, len) ==
    LET processed == ProcessString(str, len, {" "}, AsciiVowels)
    IN  [k \in 1..len |-> IF k <= Len(processed) THEN processed[k] ELSE NUL]

-----------------------------------------------------------------------------
(* The JSON digital annex (J1939Spec with Annex::Json) and the other annex   *)
(* kinds. A JSON object is a function from its keys; `fields` is the set of  *)
(* keys an entry has. SpecPGN and SpecSPN keep the fields decoding reads     *)
(* (the fixed-width text fields are not part of this model).                 *)

PgnFields == {"Name", "Label", "PGNLength", "Rate", "SPNs"}
SpnFields == {"Name", "Units", "SPNLength", "Resolution", "Offset", "OperationalHigh"}

DefaultSpecPGN == [length |-> 0, spns |-> EmptyMap]

MapPut(m, k, v) == [x \in (DOMAIN m) \cup {k} |-> IF x = k THEN v ELSE m[x]]

\* parse_j1939_spns_json: spns zipped with the start bits; an SPN missing from
\* J1939SPNdb is skipped, an SPN entry lacking a field panics (unwrap)
RECURSIVE SpnsJsonLoop(_, _, _, _, _)
SpnsJsonLoop(spndb, spns, spn_start_bit, i, acc) ==
    IF i > Min(Len(spns), Len(spn_start_bit)) THEN [panic |-> FALSE, spns |-> acc]
    ELSE IF spns[i] \notin DOMAIN spndb
         THEN SpnsJsonLoop(spndb, spns, spn_start_bit, i + 1, acc)
    ELSE LET spn_t == spndb[spns[i]]
             start == spn_start_bit[i]
             spn   == [length     |-> spn_t.SPNLength % 256,
                       resolution |-> spn_t.Resolution,
                       offset     |-> spn_t.Offset,
                       max        |-> spn_t.OperationalHigh,
                       start_bit  |-> IF start >= 0 THEN start % 256 ELSE 0]
         IN  IF spn_t.fields # SpnFields THEN [panic |-> TRUE, spns |-> acc]
             ELSE SpnsJsonLoop(spndb, spns, spn_start_bit, i + 1,
                               MapPut(acc, spns[i], spn))

ParseJ1939SpnsJson(spndb, spns, spn_start_bit) ==
    SpnsJsonLoop(spndb, spns, spn_start_bit, 1, EmptyMap)

\* mutant: a PGN missing from J1939PGNdb reported as a lookup error
AbsentPgnMetadata_Err == [tag |-> "err", pgn |-> DefaultSpecPGN]

\* get_id_metadata when J1939PGNdb has no entry for the PGN: the `if let` is
\* skipped and Ok(aux_info) returns the default SpecPGN
AbsentPgnMetadata == [tag |-> "ok", pgn |-> DefaultSpecPGN]

\* J1939Spec::get_id_metadata
GetIdMetadata(annex, id) ==
    IF annex.kind # "json"
    THEN [tag |-> "err", pgn |-> DefaultSpecPGN]          \* Annex type not supported
    ELSE IF ~annex.hasPgnDb
    THEN [tag |-> "err", pgn |-> DefaultSpecPGN]          \* Could not find PGN database
    ELSE IF id.pgn \notin DOMAIN annex.pgndb
    THEN AbsentPgnMetadata
    ELSE LET pgn_data == annex.pgndb[id.pgn]
             startBits == IF pgn_data.hasStartBits THEN pgn_data.SPNStartBits ELSE << >>
             parsed == ParseJ1939SpnsJson(annex.spndb, pgn_data.SPNs, startBits)
         IN  IF pgn_data.fields # PgnFields
             THEN [tag |-> "panic", pgn |-> DefaultSpecPGN]
             ELSE IF ~annex.hasSpnDb
             THEN [tag |-> "err", pgn |-> DefaultSpecPGN] \* Could not find SPN database
             ELSE IF parsed.panic
             THEN [tag |-> "panic", pgn |-> DefaultSpecPGN]
             ELSE [tag |-> "ok",
                   pgn |-> [length |-> pgn_data.PGNLength % 256, spns |-> parsed.spns]]

-----------------------------------------------------------------------------
(* SPN extraction. start_bit + i is u8 arithmetic: with overflow checks (a   *)
(* debug build) an overflow panics, without them it wraps.                   *)

ExtractLen(length) ==
    IF (PayloadSize - 1) % 256 < length THEN (PayloadSize - 1) % 256 ELSE length

BitValue(data, start_bit, len, i) ==
    LET idx  == (start_bit + i) % 256
        byte == idx \div 8
        bit  == idx % 8
    IN  IF byte <= len THEN (data[byte + 1] \div Pow2(bit)) % 2 ELSE 0

RECURSIVE RawValue(_, _, _, _)
RawValue(data, start_bit, len, i) ==
    IF i >= len THEN 0
    ELSE (IF BitValue(data, start_bit, len, i) = 1 THEN Pow2(i) ELSE 0)
         + RawValue(data, start_bit, len, i + 1)

\* a wrap that adds max
Wrap_Add(value, max) == IF value > max THEN value + max ELSE value

\* if value > max { value -= max; }
Wrap(value, max) == IF value > max THEN value - max ELSE value

ParseJ1939DataInner(data, start_bit, length, scaling, offset, max, checked) ==
    LET len    == ExtractLen(length)
        scaled == RawValue(data, start_bit, len, 0) * scaling + offset
    IN  IF checked /\ len > 0 /\ start_bit + (len - 1) > 255
        THEN [panic |-> TRUE, value |-> 0]
        ELSE [panic |-> FALSE, value |-> Wrap(scaled, max)]

ParseJ1939Data(data, spn_info, checked) ==
    LET one(s) == ParseJ1939DataInner(data.data, spn_info[s].start_bit, spn_info[s].length,
                                      spn_info[s].resolution, spn_info[s].offset,
                                      spn_info[s].max, checked)
    IN  IF \E s \in DOMAIN spn_info : one(s).panic
        THEN [panic |-> TRUE, data |-> data]
        ELSE [panic |-> FALSE,
              data |-> [data EXCEPT !.spns =
                          [s \in (DOMAIN data.spns) \cup (DOMAIN spn_info) |->
                              IF s \in DOMAIN spn_info THEN one(s).value
                              ELSE data.spns[s]]]]

-----------------------------------------------------------------------------
(* parse_line_inner, in the three parts between which other workers can act: *)
(* the part before the cache (lib.rs 507-531), the hit check under the read  *)
(* guard (533-536) and the miss path (537-550).                              *)

\* res: "ok" = Ok(msg), "err" = Err(reason), "panic", "ext" = go on to the cache
LineHead(line, specsv) ==
    LET m0 == DefaultCANMessage
        m1 == IF line.ts.has THEN [m0 EXCEPT !.ts = line.ts.val] ELSE m0
        d  == ParseDataCapture(line.data.str, m1.data)
        m2 == IF line.data.has THEN [m1 EXCEPT !.data = d.data] ELSE m1
        i  == ParseId(line.id.str, m2.id)
        m3 == [m2 EXCEPT !.id = i.id]
    IN  IF ~line.match THEN [res |-> "err", msg |-> m0, reason |-> "No captures found"]
        ELSE IF line.ts.has /\ ~line.ts.ok
        THEN [res |-> "err", msg |-> m0, reason |-> "Failed to parse timestamp"]
        ELSE IF line.data.has /\ d.res = "err"
        THEN [res |-> "err", msg |-> m1, reason |-> "Failed to parse data"]
        ELSE IF line.data.has /\ d.res = "panic"
        THEN [res |-> "panic", msg |-> m1, reason |-> "data"]
        ELSE IF ~(line.id.has /\ specsv.present)
        THEN [res |-> "ok", msg |-> m2, reason |-> ""]
        ELSE IF i.panic THEN [res |-> "panic", msg |-> m2, reason |-> "id"]
        ELSE IF m3.id.ext THEN [res |-> "ext", msg |-> m3, reason |-> ""]
        ELSE [res |-> "ok", msg |-> m3, reason |-> ""]

\* mutant: the hit check never finds the entry
CacheHit_Never(msg, cachev) == FALSE

CacheHit(msg, cachev) == msg.id.pgn \in DOMAIN cachev

\* mutant: a hit returns the message without decoding its SPNs
HitPath_NoDecode(msg, cachev, checked) == [res |-> "ok", msg |-> msg, reason |-> ""]

\* the body of the hit branch
HitPath(msg, cachev, checked) ==
    LET p == ParseJ1939Data(msg.data, cachev[msg.id.pgn].spns, checked)
    IN  IF p.panic THEN [res |-> "panic", msg |-> msg, reason |-> "spn"]
        ELSE [res |-> "ok", msg |-> [msg EXCEPT !.data = p.data], reason |-> ""]

\* an insert that is lost
CacheInsert_Lost(cachev, pgn, aux) == cachev

\* an insert that keeps only the entry it writes
CacheInsert_Evicting(cachev, pgn, aux) == pgn :> aux

\* spec.j1939.write().unwrap().insert(msg.id.pgn, aux.clone())
CacheInsert(cachev, pgn, aux) == MapPut(cachev, pgn, aux)

\* mutant: the lookup error swallowed, the frame returned as it is
OnLookupError_Swallow(same) == same

\* `.map_err(|e| format!("Failed to get metadata for PGN {}: {}", ..))?`
OnLookupError(same) ==
    [same EXCEPT !.res = "err", !.reason = "Failed to get metadata for PGN"]

\* the miss branch; insert tells whether the write lock is taken
MissPath(msg, specsv, cachev, checked) ==
    LET meta == GetIdMetadata(specsv.j1939, msg.id)
        p    == ParseJ1939Data(msg.data, meta.pgn.spns, checked)
        same == [res |-> "ok", msg |-> msg, reason |-> "", insert |-> FALSE, cache |-> cachev]
    IN  IF specsv.j1939.kind = "none" THEN same
        ELSE IF meta.tag = "err"
        THEN OnLookupError(same)
        ELSE IF meta.tag = "panic"
        THEN [same EXCEPT !.res = "panic", !.reason = "annex"]
        ELSE LET put == CacheInsert(cachev, msg.id.pgn, meta.pgn)
             IN  IF p.panic
                 THEN [same EXCEPT !.res = "panic", !.reason = "spn",
                                   !.insert = TRUE, !.cache = put]
                 ELSE [same EXCEPT !.msg = [msg EXCEPT !.data = p.data],
                                   !.insert = TRUE, !.cache = put]

-----------------------------------------------------------------------------
(* The command-line front end (can_parser_cli). A run is described by what   *)
(* each of its steps meets: whether the input file can be read, whether the  *)
(* line pattern compiles and the spec keys are known (CANParser::new), how   *)
(* the parse ends, whether an output path is given, exists and may be        *)
(* overwritten, and whether the sink succeeds.                               *)

\* write_results
WriteResults(a) ==
    IF a.has_output /\ ~a.force /\ a.output_exists THEN "Err"
    ELSE IF ~a.sink_ok THEN "Err"
    ELSE "Ok"

\* parse_input
ParseInput(a) ==
    IF ~a.file_ok THEN "Err"
    ELSE IF ~(a.regex_ok /\ a.specs_ok) THEN "Err"
    ELSE WriteResults(a)

\* main: the error of parse_input is printed and main returns, so the
\* process ends with the exit code of a normal return
Main(a) == IF ParseInput(a) = "Err" THEN 0 ELSE 0

-----------------------------------------------------------------------------
(* Inputs of the pipeline model *)

Workers == 1..NumWorkers

Capture(str) == [has |-> TRUE, str |-> str]
NoCapture == [has |-> FALSE, str |-> << >>]
Timestamp(v) == [has |-> TRUE, ok |-> TRUE, val |-> v]
BadTimestamp == [has |-> TRUE, ok |-> FALSE, val |-> 0]

IdEEC1 == <<0, 12, 15, 0, 0, 4, 0, 0>>          \* 0CF00400: PGN 61444
IdCCVS == <<1, 8, 15, 14, 15, 1, 0, 0>>         \* 18FEF100: PGN 65265
IdStd  == <<1, 2, 3>>                           \* 123: not extended
DataEEC1 == <<15, 15, 7, 13, 8, 3, 7, 13, 8, 2, 1, 0, 15, 15, 15, 15>>
DataBeef == <<13, 14, 10, 13, 11, 14, 14, 15>>

LineEEC1    == [match |-> TRUE, ts |-> Timestamp(1), id |-> Capture(IdEEC1),
                data |-> Capture(DataEEC1)]
LineCCVS    == [match |-> TRUE, ts |-> Timestamp(2), id |-> Capture(IdCCVS),
                data |-> Capture(DataBeef)]
LineStd     == [match |-> TRUE, ts |-> Timestamp(3), id |-> Capture(IdStd),
                data |-> Capture(DataBeef)]
LineGarbage == [match |-> FALSE, ts |-> [has |-> FALSE, ok |-> FALSE, val |-> 0],
                id |-> NoCapture, data |-> NoCapture]
LineBadTs   == [LineStd EXCEPT !.ts = BadTimestamp]
LineBadData == [LineStd EXCEPT !.data = Capture(<<1, 2, NONHEX, 3>>)]
LineBadId   == [LineStd EXCEPT !.id = Capture(<<1, 2, NONHEX>>)]
LineOddData == [LineStd EXCEPT !.data = Capture(<<10, 11, 12>>)]

LineKinds == {LineEEC1, LineCCVS, LineStd, LineGarbage, LineOddData}

\* J1939SPNdb and J1939PGNdb of the model's JSON annex: PGN 61444 with SPN 190
\* (16 bits from bit 24) and SPN 899 (4 bits from bit 16); SPN 4154 is
\* referenced but not defined
SpnDb ==
    (190 :> [fields |-> SpnFields, SPNLength |-> 16, Resolution |-> 1, Offset |-> 0,
             OperationalHigh |-> 64255]) @@
    (899 :> [fields |-> SpnFields, SPNLength |-> 4, Resolution |-> 1, Offset |-> 0,
             OperationalHigh |-> 15])
PgnDb ==
    (61444 :> [fields |-> PgnFields, PGNLength |-> 8, SPNs |-> <<899, 4154, 190>>,
               hasStartBits |-> TRUE, SPNStartBits |-> <<16, 8, 24>>])

NoAnnex == [kind |-> "none", hasPgnDb |-> FALSE, pgndb |-> EmptyMap,
            hasSpnDb |-> FALSE, spndb |-> EmptyMap]
JsonAnnex == [kind |-> "json", hasPgnDb |-> TRUE, pgndb |-> PgnDb,
              hasSpnDb |-> TRUE, spndb |-> SpnDb]
JsonNoPgnDb == [JsonAnnex EXCEPT !.hasPgnDb = FALSE, !.pgndb = EmptyMap]
DbcAnnex == [NoAnnex EXCEPT !.kind = "dbc"]

\* CANParser::new: specs is None without an annex map; else Specs.j1939 is
\* what fetch_spec found under "j1939"
SpecsConfigs ==
    {[present |-> FALSE, j1939 |-> NoAnnex]} \cup
    {[present |-> TRUE, j1939 |-> a] : a \in {NoAnnex, JsonAnnex, JsonNoPgnDb, DbcAnnex}}

\* error_handling.to_ascii_lowercase() over the mode strings of the model
ModeInputs == {"warn", "ignore", "WARN", "strict"}
ToAsciiLowercase(m) == IF m = "WARN" THEN "warn" ELSE m

-----------------------------------------------------------------------------
(* CANParser::new: the keys of the annex map are validated ignoring ASCII    *)
(* case, and the J1939 annex is fetched under the key "j1939". A key is a    *)
(* sequence of characters; an annex value stands for the annex it loads.     *)

SPEC_TYPE_J1939 == <<"j", "1", "9", "3", "9">>
SPEC_TYPE_CAN == <<"c", "a", "n">>
SPEC_TYPE_UDS == <<"u", "d", "s">>
SPEC_TYPE_TRANSPORT == <<"t", "r", "a", "n", "s", "p", "o", "r", "t">>

known_keys == {SPEC_TYPE_J1939, SPEC_TYPE_CAN, SPEC_TYPE_UDS, SPEC_TYPE_TRANSPORT}

ToLowerChar(c) ==
    IF \E k \in 1..26 : UpperCase[k] = c
    THEN LowerCase[CHOOSE k \in 1..26 : UpperCase[k] = c]
    ELSE c

\* key.to_ascii_lowercase()
KeyToAsciiLowercase(key) == [k \in 1..Len(key) |-> ToLowerChar(key[k])]

\* fetch_spec: annexes.get(key), None when the map has no such key
FetchSpec(annexes, key) ==
    IF key \in DOMAIN annexes THEN annexes[key] ELSE NoAnnex

\* CANParser::new, as far as specs: Err for an unknown key
New(specs_annexes) ==
    IF ~specs_annexes.has
    THEN [res |-> "ok", specs |-> [present |-> FALSE, j1939 |-> NoAnnex]]
    ELSE IF \E key \in DOMAIN specs_annexes.map : KeyToAsciiLowercase(key) \notin known_keys
    THEN [res |-> "err", specs |-> [present |-> FALSE, j1939 |-> NoAnnex]]
    ELSE [res |-> "ok",
          specs |-> [present |-> TRUE,
                     j1939 |-> FetchSpec(specs_annexes.map, SPEC_TYPE_J1939)]]

-----------------------------------------------------------------------------
(* State of the pipeline *)

Idle == [line |-> 0, msg |-> DefaultCANMessage, hit |-> FALSE]
Pending == [tag |-> "pending", msg |-> DefaultCANMessage, reason |-> ""]
NoCall == [op |-> "none", arg |-> << >>, ret |-> << >>, done |-> TRUE]

SeqsUpTo(S, n) == UNION {[1..k -> S] : k \in 0..n}

Init ==
    /\ lines \in SeqsUpTo(LineKinds, NumLines)
    /\ specs \in SpecsConfigs
    /\ error_handling \in {ToAsciiLowercase(m) : m \in ModeInputs}
    /\ parallel \in BOOLEAN
    /\ cache = EmptyMap
    /\ readers = {}
    /\ taken = {}
    /\ pc = [w \in Workers |-> "idle"]
    /\ cur = [w \in Workers |-> Idle]
    /\ results = [i \in 1..Len(lines) |-> Pending]
    /\ errors = << >>
    /\ messages = << >>
    /\ status = "running"
    /\ inserts = EmptyBag
    /\ unit = NoCall

\* handle_parsing_error and the closure around parse_line_inner for a line
\* that returned Err(reason): what becomes of the line, the error list, the worker
HandleParsingError(w, i, reason) ==
    IF error_handling = ERROR_IGNORE
    THEN /\ results' = [results EXCEPT ![i] = [Pending EXCEPT !.tag = "err", !.reason = reason]]
         /\ errors' = errors
         /\ pc' = [pc EXCEPT ![w] = "idle"]
    ELSE IF error_handling = ERROR_WARN
    THEN /\ results' = [results EXCEPT ![i] = [Pending EXCEPT !.tag = "err", !.reason = reason]]
         /\ errors' = Append(errors, [line |-> i, reason |-> reason])
         /\ pc' = [pc EXCEPT ![w] = "idle"]
    ELSE /\ results' = [results EXCEPT ![i] = [Pending EXCEPT !.tag = "panic", !.reason = "mode"]]
         /\ errors' = errors
         /\ pc' = [pc EXCEPT ![w] = "panicked"]

\* the end of parse_line_inner for a worker: Ok(msg), Err(reason) or a panic
Conclude(w, i, out) ==
    IF out.res = "ok"
    THEN /\ results' = [results EXCEPT ![i] = [tag |-> "frame", msg |-> out.msg, reason |-> ""]]
         /\ errors' = errors
         /\ pc' = [pc EXCEPT ![w] = "idle"]
    ELSE IF out.res = "err" THEN HandleParsingError(w, i, out.reason)
    ELSE /\ results' = [results EXCEPT ![i] = [Pending EXCEPT !.tag = "panic", !.reason = out.reason]]
         /\ errors' = errors
         /\ pc' = [pc EXCEPT ![w] = "panicked"]

\* A worker starts a line and runs parse_line_inner up to the cache. The
\* sequential iterator is worker 1 taking the lines in order; rayon's workers
\* take any line not started yet. Idle workers are interchangeable, so the
\* lowest-numbered idle worker stands for whichever of them takes the line.
StartLine(w) ==
    /\ status = "running"
    /\ pc[w] = "idle"
    /\ parallel \/ (w = 1)
    /\ \A v \in Workers : v < w => pc[v] # "idle"
    /\ \E i \in (1..Len(lines)) \ taken :
          /\ parallel \/ (\A j \in (1..Len(lines)) \ taken : i <= j)
          /\ taken' = taken \cup {i}
          /\ LET head == LineHead(lines[i], specs)
             IN  IF head.res = "ext"
                 THEN /\ pc' = [pc EXCEPT ![w] = "check"]
                      /\ cur' = [cur EXCEPT ![w] = [line |-> i, msg |-> head.msg, hit |-> FALSE]]
                      /\ UNCHANGED <<results, errors>>
                 ELSE /\ Conclude(w, i, head)
                      /\ cur' = cur
    /\ UNCHANGED <<lines, specs, error_handling, parallel, cache, readers, messages,
                   status, inserts, unit>>

\* spec.j1939.read().unwrap().get(&pgn): the read guard is taken and, on a
\* hit, the SPNs are decoded from the cached layout while it is held
CacheRead(w) ==
    /\ status = "running"
    /\ pc[w] = "check"
    /\ IF CacheHit(cur[w].msg, cache)
       THEN \E checked \in BOOLEAN :
               LET out == HitPath(cur[w].msg, cache, checked)
               IN  IF out.res = "panic"
                   THEN /\ Conclude(w, cur[w].line, out)
                        /\ readers' = readers
                        /\ cur' = [cur EXCEPT ![w] = Idle]
                   ELSE /\ readers' = readers \cup {w}
                        /\ cur' = [cur EXCEPT ![w].msg = out.msg, ![w].hit = TRUE]
                        /\ pc' = [pc EXCEPT ![w] = "release"]
                        /\ UNCHANGED <<results, errors>>
       ELSE /\ readers' = readers \cup {w}
            /\ pc' = [pc EXCEPT ![w] = "release"]
            /\ UNCHANGED <<cur, results, errors>>
    /\ UNCHANGED <<lines, specs, error_handling, parallel, cache, taken, messages,
                   status, inserts, unit>>

\* the read guard is dropped at the end of the `if let`
ReleaseRead(w) ==
    /\ status = "running"
    /\ pc[w] = "release"
    /\ readers' = readers \ {w}
    /\ IF cur[w].hit
       THEN /\ Conclude(w, cur[w].line, [res |-> "ok", msg |-> cur[w].msg, reason |-> ""])
            /\ cur' = [cur EXCEPT ![w] = Idle]
       ELSE /\ pc' = [pc EXCEPT ![w] = "miss"]
            /\ UNCHANGED <<cur, results, errors>>
    /\ UNCHANGED <<lines, specs, error_handling, parallel, cache, taken, messages,
                   status, inserts, unit>>

\* the miss branch: annex lookup, insert under the write lock (which waits
\* for the readers to leave), decode with the looked-up layout
Miss(w) ==
    /\ status = "running"
    /\ pc[w] = "miss"
    /\ \E checked \in BOOLEAN :
          LET out == MissPath(cur[w].msg, specs, cache, checked)
          IN  /\ out.insert => readers = {}
              /\ cache' = out.cache
              /\ inserts' = IF out.insert
                            THEN inserts (+) SetToBag({cur[w].msg.id.pgn})
                            ELSE inserts
              /\ Conclude(w, cur[w].line, out)
    /\ cur' = [cur EXCEPT ![w] = Idle]
    /\ UNCHANGED <<lines, specs, error_handling, parallel, readers, taken, messages,
                   status, unit>>

\* a collect that puts each frame before the frames found so far
RECURSIVE Collect_Reversed(_, _)
Collect_Reversed(res, i) ==
    IF i > Len(res) THEN << >>
    ELSE IF res[i].tag = "frame" THEN Collect_Reversed(res, i + 1) \o <<res[i].msg>>
    ELSE Collect_Reversed(res, i + 1)

\* the frames of the lines that returned Some(message), in line order
RECURSIVE Collect(_, _)
Collect(res, i) ==
    IF i > Len(res) THEN << >>
    ELSE IF res[i].tag = "frame" THEN <<res[i].msg>> \o Collect(res, i + 1)
    ELSE Collect(res, i + 1)

\* the end of parse_lines: a panic of a worker leaves it by unwinding, without
\* assigning messages; else collect() assigns messages and the error list
\* decides between Ok(()) and Err(ParserWarning)
Finish ==
    /\ status = "running"
    /\ \A w \in Workers : pc[w] \in {"idle", "panicked"}
    /\ IF \E w \in Workers : pc[w] = "panicked"
       THEN /\ status' = "panicked"
            /\ messages' = messages
       ELSE /\ taken = 1..Len(lines)
            /\ messages' = Collect(results, 1)
            /\ status' = IF errors = << >> THEN "ok" ELSE "warning"
    /\ UNCHANGED <<lines, specs, error_handling, parallel, cache, readers, taken, pc,
                   cur, results, errors, inserts, unit>>

Next ==
    \/ \E w \in Workers : StartLine(w)
    \/ \E w \in Workers : CacheRead(w)
    \/ \E w \in Workers : ReleaseRead(w)
    \/ \E w \in Workers : Miss(w)
    \/ Finish

Spec == Init /\ [][Next]_vars

-----------------------------------------------------------------------------
(* parse_line_inner as one function, and the sequential branch of            *)
(* parse_lines (lines.iter().filter_map(parse_can_message).collect()) as a   *)
(* fold over the lines.                                                      *)

ParseLineInner(line, specsv, cachev, checked) ==
    LET head == LineHead(line, specsv)
        base == [res |-> head.res, msg |-> head.msg, reason |-> head.reason,
                 insert |-> FALSE, cache |-> cachev]
        hit  == HitPath(head.msg, cachev, checked)
    IN  IF head.res # "ext" THEN base
        ELSE IF CacheHit(head.msg, cachev)
        THEN [base EXCEPT !.res = hit.res, !.msg = hit.msg, !.reason = hit.reason]
        ELSE MissPath(head.msg, specsv, cachev, checked)

RECURSIVE SeqRun(_, _, _, _, _, _, _, _)
SeqRun(ls, i, specsv, mode, cachev, frames, errs, checked) ==
    IF i > Len(ls)
    THEN [status |-> IF errs = << >> THEN "ok" ELSE "warning",
          messages |-> frames, errors |-> errs, cache |-> cachev]
    ELSE LET out == ParseLineInner(ls[i], specsv, cachev, checked)
         IN  IF out.res = "ok"
             THEN SeqRun(ls, i + 1, specsv, mode, out.cache, Append(frames, out.msg),
                         errs, checked)
             ELSE IF out.res = "err" /\ mode = ERROR_IGNORE
             THEN SeqRun(ls, i + 1, specsv, mode, out.cache, frames, errs, checked)
             ELSE IF out.res = "err" /\ mode = ERROR_WARN
             THEN SeqRun(ls, i + 1, specsv, mode, out.cache, frames,
                         Append(errs, [line |-> i, reason |-> out.reason]), checked)
             ELSE [status |-> "panicked", messages |-> << >>, errors |-> errs,
                   cache |-> out.cache]

-----------------------------------------------------------------------------
(* The pure functions on their own: a call draws its input from a bounded    *)
(* set and the action applies the function.                                  *)

HexDigits == 0..15

\* identifier captures: eight digits that vary the priority, data page, PDU
\* format, PDU specific and source address fields, and short and bad captures
IdInputs ==
    {<<a, b, c, d, e, f, 0, g>> : a \in {0, 1, 8}, b \in {0, 9, 12}, c \in {0, 14, 15},
                                   d \in {0, 15}, e \in {0, 15}, f \in {0, 4}, g \in {0, 2}}
    \cup {<<2, 0, 0, 0, 0, 0, 0, 0>>, <<4, 0, 0, 0, 0, 0, 0, 0>>, <<6, 0, 0, 0, 0, 0, 0, 1>>,
          <<15, 15, 15, 15, 15, 15, 15, 15>>, <<0>>, <<7, 15, 14>>, <<8, 0, 1>>,
          <<0, 0, 0, 0, 0, 7, 15, 15>>, <<2, 0, 0, 0, 0, 1, 2, 3>>}
    \cup {<<1, 9, 15, 14, 15, 1, 0, 0>>, <<1, 2, 3>>, <<7, 15, 15>>, <<8, 0, 0>>,
          << >>, <<1, 2, NONHEX>>, <<PLUS, 1, 2>>,
          <<1, 2, 3, 4, 5, 6, 7, 8, 9>>, <<0, 0, 0, 0, 0, 0, 0, 1, 2>>}

\* data captures: every length up to MaxDataDigits in two digit patterns, and
\* captures holding a character that is no hex digit
DataInputs ==
    {[k \in 1..n |-> (7 * k) % 16] : n \in 0..MaxDataDigits}
    \cup {[k \in 1..n |-> 15] : n \in 0..MaxDataDigits}
    \cup {<<1, NONHEX>>, <<1, 2, NONHEX>>, <<1, 2, NONHEX, 3>>, <<PLUS, 5>>,
          <<PLUS, PLUS>>, <<1, 2, 3, NONHEX, 4>>}

\* lines for the part of parse_line_inner before the cache
HeadLines ==
    LineKinds \cup
    {LineBadTs, LineBadData, LineBadId,
     [LineStd EXCEPT !.id = Capture(<<1, 2, 3, 4, 5, 6, 7, 8, 9>>)],
     [LineEEC1 EXCEPT !.data = Capture(<<10, 11, 12>>)],
     [LineEEC1 EXCEPT !.id = NoCapture],
     [LineEEC1 EXCEPT !.data = NoCapture],
     [LineEEC1 EXCEPT !.ts = [has |-> FALSE, ok |-> FALSE, val |-> 0]]}

\* payloads as parse_line_inner leaves them, without and with a decoded SPN
PayloadInputs ==
    LET parsed == {ParseDataCapture(str, DefaultCANData) :
                      str \in {<< >>, DataBeef, DataEEC1, <<0, 0>>, <<0, 0, 0, 0>>,
                               <<0, 0, 0, 1>>, <<10, 14>>,
                               [k \in 1..64 |-> 15], [k \in 1..64 |-> (7 * k) % 16],
                               [k \in 1..62 |-> 14], [k \in 1..66 |-> 15]}}
    IN  {[r.data EXCEPT !.spns = m] : r \in {q \in parsed : q.res = "ok"},
                                      m \in {EmptyMap, 190 :> 4160, (190 :> 4160) @@ (899 :> 3)}}

\* names, labels and units as an annex holds them, and the widths of the
\* fixed-width fields they go to
StringInputs ==
    {<< >>,
     <<"E", "N", "G", "I", "N", "E">>,
     <<"E", "N", "G", "I", "N", "E", " ", "S", "P", "E", "E", "D">>,
     <<"E", "n", "g", "i", "n", "e", " ", "S", "p", "e", "e", "d">>,
     <<"E", "n", "g", "i", "n", "e">>,
     <<"A", "b", " ", "c">>,
     <<"a", " ", "b">>,
     <<"S", "p", "e", "e", "d", " ", "1">>,
     <<"H", "e", "l", "l", "o", ",", " ", "W", "o", "r", "l", "d", "!">>,
     <<"r", "p", "m">>,
     <<"E", "n", "g", "i", "n", "e", " ", "O", "i", "l", " ", "T", "e", "m", "p">>,
     <<" ", " ">>,
     <<"X", " ", "Y">>,
     <<" ", "O", "N">>}
WidthInputs == {0, 4, 8, 10, 12}

\* what a run of the command-line front end meets
CliInputs ==
    [file_ok : BOOLEAN, regex_ok : BOOLEAN, specs_ok : BOOLEAN,
     parse : {"ok", "warning"}, has_output : BOOLEAN, output_exists : BOOLEAN,
     force : BOOLEAN, sink_ok : BOOLEAN]

\* payloads and SPN layouts for the extractor: SPNs of up to MaxSpnBits bits
\* at start bits in low and high bytes, on and across byte boundaries; the
\* scalings are (resolution, offset, max)
ExtractPayloads ==
    {ParseDataCapture(str, DefaultCANData).data :
        str \in {DataEEC1, DataBeef, <<10, 5>>,
                 <<0, 0, 0, 0, 0, 0, 0, 0, 0, 0, 0, 0, 0, 0, 12, 3>>}}
ExtractStartBits == {0, 3, 4, 7, 8, 12, 24, 30, 48, 56, 60, 62, 200, 250, 255}
ExtractLengths == {0, 1, 2, 3, 4, 8, MaxSpnBits}
Scalings == {<<1, 0, 1048576>>, <<2, 5, 100>>, <<1, 5, 10>>, <<1, -40, 210>>, <<3, 0, 0>>}
ExtractInputs ==
    [data : ExtractPayloads, start_bit : ExtractStartBits, length : ExtractLengths,
     scaling : Scalings]

\* JSON annexes for get_id_metadata: the entry of PGN 61444 as it is, without
\* SPNStartBits and with one key missing, the entry of SPN 190 as it is and
\* with one key missing, and the annexes without a database
PgnEntryInputs ==
    {PgnDb[61444], [PgnDb[61444] EXCEPT !.hasStartBits = FALSE, !.SPNStartBits = << >>]}
    \cup {[PgnDb[61444] EXCEPT !.fields = PgnFields \ {f}] : f \in PgnFields}
SpnEntryInputs ==
    {SpnDb[190]} \cup {[SpnDb[190] EXCEPT !.fields = SpnFields \ {f}] : f \in SpnFields}
LookupAnnexes ==
    {[JsonAnnex EXCEPT !.pgndb = (61444 :> p), !.spndb = [SpnDb EXCEPT ![190] = s]] :
        p \in PgnEntryInputs, s \in SpnEntryInputs}
    \cup {JsonNoPgnDb, DbcAnnex, [JsonAnnex EXCEPT !.hasSpnDb = FALSE, !.spndb = EmptyMap]}
LookupInputs ==
    [annex : LookupAnnexes,
     id : {ParseId(IdEEC1, DefaultCANID).id, ParseId(IdCCVS, DefaultCANID).id}]

\* annex maps for CANParser::new: none, empty, one key and two keys, the keys
\* in lower, upper and mixed case, known and unknown
KeyInputs ==
    {SPEC_TYPE_J1939, <<"J", "1", "9", "3", "9">>, SPEC_TYPE_CAN, <<"C", "a", "n">>,
     SPEC_TYPE_UDS, <<"U", "D", "S">>, SPEC_TYPE_TRANSPORT, <<"d", "b", "c">>, << >>}
AnnexMapInputs ==
    {[has |-> FALSE, map |-> EmptyMap], [has |-> TRUE, map |-> EmptyMap]}
    \cup {[has |-> TRUE, map |-> (k :> a)] : k \in KeyInputs, a \in {JsonAnnex, DbcAnnex}}
    \cup {[has |-> TRUE, map |-> (k1 :> JsonAnnex) @@ (k2 :> a)] :
             k1 \in KeyInputs, k2 \in KeyInputs, a \in {JsonAnnex, JsonNoPgnDb}}

Call(op, arg) == [op |-> op, arg |-> arg, ret |-> << >>, done |-> FALSE]

InitUnit ==
    /\ lines = << >>
    /\ specs = [present |-> FALSE, j1939 |-> NoAnnex]
    /\ error_handling = ERROR_WARN
    /\ parallel = FALSE
    /\ cache = EmptyMap
    /\ readers = {}
    /\ taken = {}
    /\ pc = [w \in Workers |-> "idle"]
    /\ cur = [w \in Workers |-> Idle]
    /\ results = << >>
    /\ errors = << >>
    /\ messages = << >>
    /\ status = "unit"
    /\ inserts = EmptyBag
    /\ \/ unit \in {Call("parse_id", str) : str \in IdInputs}
       \/ unit \in {Call("parse_data", str) : str \in DataInputs}
       \/ unit \in {Call("line_head", [line |-> l, specs |-> c]) :
                       l \in HeadLines, c \in SpecsConfigs}
       \/ unit \in {Call("string_to_slice", [input |-> str, len |-> n]) :
                       str \in StringInputs, n \in WidthInputs}
       \/ unit \in {Call("main", a) : a \in CliInputs}
       \/ unit \in {Call("extract", a) : a \in ExtractInputs}
       \/ unit \in {Call("lookup", a) : a \in LookupInputs}
       \/ unit \in {Call("new", a) : a \in AnnexMapInputs}
       \/ unit \in {Call("re_coerce", [input |-> str, len |-> n]) :
                       str \in StringInputs, n \in WidthInputs}
       \/ unit \in {Call("serialize", d) : d \in PayloadInputs}
       \/ unit \in {Call("round_trip", d) : d \in PayloadInputs}

CallParseId ==
    /\ unit.op = "parse_id" /\ ~unit.done
    /\ unit' = [unit EXCEPT !.ret = ParseId(unit.arg, DefaultCANID), !.done = TRUE]
    /\ UNCHANGED pipeVars

CallParseData ==
    /\ unit.op = "parse_data" /\ ~unit.done
    /\ unit' = [unit EXCEPT !.ret = ParseDataCapture(unit.arg, DefaultCANData), !.done = TRUE]
    /\ UNCHANGED pipeVars

CallLineHead ==
    /\ unit.op = "line_head" /\ ~unit.done
    /\ unit' = [unit EXCEPT !.ret = LineHead(unit.arg.line, unit.arg.specs), !.done = TRUE]
    /\ UNCHANGED pipeVars

CallSerialize ==
    /\ unit.op = "serialize" /\ ~unit.done
    /\ unit' = [unit EXCEPT !.ret = SerializeCANData(unit.arg), !.done = TRUE]
    /\ UNCHANGED pipeVars

CallRoundTrip ==
    /\ unit.op = "round_trip" /\ ~unit.done
    /\ unit' = [unit EXCEPT !.ret = RoundTripCANData(unit.arg), !.done = TRUE]
    /\ UNCHANGED pipeVars

CallStringToSlice ==
    /\ unit.op = "string_to_slice" /\ ~unit.done
    /\ unit' = [unit EXCEPT !.ret = StringToSlice(unit.arg.input, unit.arg.len), !.done = TRUE]
    /\ UNCHANGED pipeVars

CallMain ==
    /\ unit.op = "main" /\ ~unit.done
    /\ unit' = [unit EXCEPT !.ret = Main(unit.arg), !.done = TRUE]
    /\ UNCHANGED pipeVars

\* parse_j1939_data_inner over the 64-byte buffer of the frame, in a build
\* with and without overflow checks
CallExtract ==
    /\ unit.op = "extract" /\ ~unit.done
    /\ \E checked \in BOOLEAN :
          unit' = [unit EXCEPT
                      !.ret = ParseJ1939DataInner(unit.arg.data.data, unit.arg.start_bit,
                                                  unit.arg.length, unit.arg.scaling[1],
                                                  unit.arg.scaling[2], unit.arg.scaling[3],
                                                  checked),
                      !.done = TRUE]
    /\ UNCHANGED pipeVars

CallLookup ==
    /\ unit.op = "lookup" /\ ~unit.done
    /\ unit' = [unit EXCEPT !.ret = GetIdMetadata(unit.arg.annex, unit.arg.id), !.done = TRUE]
    /\ UNCHANGED pipeVars

\* a field built by string_to_slice, coerced again as it is and as its
\* trimmed text, and taken through serialize_u8_array and deserialize_u8_array
CallReCoerce ==
    /\ unit.op = "re_coerce" /\ ~unit.done
    /\ LET field == StringToSlice(unit.arg.input, unit.arg.len)
       IN  unit' = [unit EXCEPT
                       !.ret = [field   |-> field,
                                again   |-> StringToSlice(field, unit.arg.len),
                                trimmed |-> StringToSlice(Trim(field), unit.arg.len),
                                serde   |-> DeserializeU8Array(SerializeU8Array(field),
                                                               unit.arg.len)],
                       !.done = TRUE]
    /\ UNCHANGED pipeVars

CallNew ==
    /\ unit.op = "new" /\ ~unit.done
    /\ unit' = [unit EXCEPT !.ret = New(unit.arg), !.done = TRUE]
    /\ UNCHANGED pipeVars

NextUnit ==
    \/ CallParseId \/ CallParseData \/ CallLineHead
    \/ CallSerialize \/ CallRoundTrip \/ CallStringToSlice \/ CallMain
    \/ CallExtract \/ CallLookup \/ CallReCoerce \/ CallNew

SpecUnit == InitUnit /\ [][NextUnit]_vars

-----------------------------------------------------------------------------
(* Vocabulary of the properties *)

Range(f) == {f[x] : x \in DOMAIN f}
SeqBag(q) == [x \in Range(q) |-> Cardinality({i \in DOMAIN q : q[i] = x})]
LineIdx == 1..Len(lines)
Finished == status \in {"ok", "warning", "panicked"}
Returned == status \in {"ok", "warning"}
Settled(i) == results[i].tag # "pending"
ErrorsFor(i) == Cardinality({k \in DOMAIN errors : errors[k].line = i})
HeadOf(i) == LineHead(lines[i], specs)
\* the value of a hex string, as a set of one bits
HexValue(str) ==
    UNION {{4 * (Len(str) - k) + b : b \in BitsOf(str[k], 4)} : k \in 1..Len(str)}
\* what a line comes to when parsed alone
Alone(i) == ParseLineInner(lines[i], specs, EmptyMap, TRUE)
DecodingLines == {i \in LineIdx : Alone(i).res = "ok"}
FailingLines == LineIdx \ DecodingLines
\* extended line whose PGN the JSON annex has no entry for
AnnexSilent(i) ==
    /\ specs.j1939.kind = "json" /\ specs.j1939.hasPgnDb
    /\ LET h == HeadOf(i)
       IN  h.res = "ext" /\ h.msg.id.pgn \notin DOMAIN specs.j1939.pgndb
\* extended line for which the annex lookup returns an error
LookupFails(i) ==
    /\ \/ specs.j1939.kind = "dbc"
       \/ specs.j1939.kind = "json" /\ ~specs.j1939.hasPgnDb
    /\ HeadOf(i).res = "ext"

-----------------------------------------------------------------------------
\* C1: when a parallel run of parse_lines has ended, it ended the way the
\* sequential run over the same lines, annex and mode ends, and if it returned,
\* its frames are the same multiset as the sequential run's frames.
C1_ParallelEqualsSequential ==
    (parallel /\ Finished) =>
        \A checked \in BOOLEAN :
            LET ref == SeqRun(lines, 1, specs, error_handling, EmptyMap, << >>, << >>, checked)
            IN  /\ status = ref.status
                /\ Returned => SeqBag(messages) = SeqBag(ref.messages)

\* a parallel run returned two frames with decoded SPNs after both workers
\* missed the cache and both inserted the PGN
C1_Witness ==
    /\ parallel /\ status = "ok" /\ Len(messages) = 2
    /\ \A k \in 1..2 : messages[k].data.spns # EmptyMap
    /\ BagCardinality(inserts) = 2

\* C2 (as claimed): a PGN is inserted into the cache at most once during a run.
C2_AtMostOneInsertPerPgn ==
    \A p \in BagToSet(inserts) : CopiesIn(p, inserts) <= 1

\* C2 (amended): a worker goes on to the miss path only when its hit check,
\* made under the read guard, found the PGN absent, and the PGN stays absent
\* while the guard is held; so the sequential run inserts each PGN at most
\* once, and a parallel run at most once per worker.
C2_InsertOnlyAfterOwnMiss ==
    /\ \A w \in Workers :
          (pc[w] = "release" /\ ~cur[w].hit) => cur[w].msg.id.pgn \notin DOMAIN cache
    /\ \A p \in BagToSet(inserts) :
          CopiesIn(p, inserts) <= (IF parallel THEN NumWorkers ELSE 1)

\* the sequential run decoded two frames of one PGN with a single insert
C2_Witness ==
    /\ ~parallel /\ status = "ok" /\ Len(messages) = 2
    /\ \A k \in 1..2 : messages[k].data.spns # EmptyMap
    /\ BagCardinality(inserts) = 1

\* C3: in warn and ignore mode parse_lines returns, messages holds one frame per
\* line that decodes, warn reports exactly one entry per failing line (success
\* when there is none) and ignore reports success.
C3_OneFramePerDecodingLine ==
    (error_handling \in {ERROR_WARN, ERROR_IGNORE} /\ Finished) =>
        /\ Returned
        /\ Len(messages) = Cardinality(DecodingLines)
        /\ \A i \in DecodingLines : results[i].tag = "frame"
        /\ error_handling = ERROR_WARN =>
              /\ \A i \in LineIdx : ErrorsFor(i) = (IF i \in FailingLines THEN 1 ELSE 0)
              /\ (status = "ok") <=> (FailingLines = {})
        /\ error_handling = ERROR_IGNORE => (status = "ok" /\ errors = << >>)

\* C4: in warn and ignore mode no failure of a per-line step aborts the run: no
\* line ends in a panic.
C4_StepFailureIsLineError ==
    error_handling \in {ERROR_WARN, ERROR_IGNORE} =>
        /\ status # "panicked"
        /\ \A i \in LineIdx : results[i].tag # "panic"

\* C5: for an identifier above 0x7FF, priority, source address, PGN and
\* destination address are the stated functions of the raw identifier, with
\* pgn = (pdu_format << 8) | pdu_specific when pdu_format >= 240.
C5_J1939Derivation ==
    (unit.op = "parse_id" /\ unit.done /\ ~unit.ret.panic
        /\ BitsGt(unit.ret.id.id, 0..10)) =>
        LET id           == unit.ret.id.id
            pdu_format   == ToNat(Shr(id \cap (16..25), 16))
            pdu_specific == ToNat(Shr(id \cap (8..15), 8))
        IN  /\ unit.ret.id.pri = ToNat(Shr(id \cap {26, 27, 28}, 26))
            /\ unit.ret.id.sa = ToNat(id \cap (0..7))
            /\ IF pdu_format >= 240
               THEN unit.ret.id.pgn = pdu_format * 256 + pdu_specific /\ unit.ret.id.da = 255
               ELSE unit.ret.id.pgn = pdu_format * 256 /\ unit.ret.id.da = pdu_specific

\* C6: the frame of a line that matched with an id capture carries the value of
\* the captured hex string as its raw id, with or without an annex.
C6_RawIdDecoded ==
    \A i \in LineIdx :
        (results[i].tag = "frame" /\ lines[i].match /\ lines[i].id.has) =>
            results[i].msg.id.id = HexValue(lines[i].id.str)

C8_LookupFailureEmitsFrame ==
    \A i \in LineIdx :
        (Settled(i) /\ LookupFails(i)) =>
            /\ results[i].tag = "frame"
            /\ results[i].msg.data.spns = EmptyMap
            /\ ErrorsFor(i) = 0

\* C8 (amended): an extended line whose annex lookup fails ends as the line
\* error "Failed to get metadata for PGN": it gives no frame, and the error
\* policy gets the error (one entry in warn mode, none in ignore mode, a panic
\* under any other mode).
C8_LookupFailureIsLineError ==
    \A i \in LineIdx :
        (Settled(i) /\ LookupFails(i)) =>
            /\ results[i].tag # "frame"
            /\ error_handling = ERROR_WARN =>
                  /\ results[i].tag = "err"
                  /\ results[i].reason = "Failed to get metadata for PGN"
                  /\ ErrorsFor(i) = 1
            /\ error_handling = ERROR_IGNORE =>
                  /\ results[i].tag = "err"
                  /\ ErrorsFor(i) = 0
            /\ error_handling \notin {ERROR_WARN, ERROR_IGNORE} => results[i].tag = "panic"
            /\ Returned => Len(messages) < Len(lines)

\* a warn-mode run returned a warning for a line whose annex lookup failed
C8_Witness ==
    /\ status = "warning" /\ error_handling = ERROR_WARN
    /\ \E i \in LineIdx : LookupFails(i) /\ results[i].tag = "err" /\ ErrorsFor(i) = 1

\* C9: a parser whose mode is neither ignore nor warn never returns from a
\* parse run.
C9_UnknownModeNeverReturns ==
    error_handling \notin {ERROR_WARN, ERROR_IGNORE} => ~Returned

\* C10: a data capture of 2n hex digits gives len = n and the n bytes in order
\* for n <= 64, is cut to 64 bytes beyond, and leaves the bytes from len on zero.
C10_PayloadUnpacked ==
    (unit.op = "parse_data" /\ unit.done
        /\ Len(unit.arg) % 2 = 0 /\ \A k \in 1..Len(unit.arg) : unit.arg[k] \in HexDigits) =>
        LET n == Min(Len(unit.arg) \div 2, PayloadSize)
        IN  /\ unit.ret.res = "ok"
            /\ unit.ret.data.len = n
            /\ \A j \in 1..n :
                  unit.ret.data.data[j] = 16 * unit.arg[2 * j - 1] + unit.arg[2 * j]
            /\ \A j \in (n + 1)..PayloadSize : unit.ret.data.data[j] = 0

\* C11: a parsed identifier is the value of its capture, it is extended exactly
\* when it is above 0x7FF (some bit from 11 up is set), an error frame exactly
\* when bit 29 is set and a remote request exactly when bit 30 is set.
C11_IdFlags ==
    (unit.op = "parse_id" /\ unit.done /\ ~unit.ret.panic) =>
        LET raw == unit.ret.id.id
        IN  /\ raw = HexValue(IF unit.arg[1] = PLUS THEN Tail(unit.arg) ELSE unit.arg)
            /\ unit.ret.id.ext = (raw \cap (11..31) # {})
            /\ unit.ret.id.err = (29 \in raw)
            /\ unit.ret.id.rtr = (30 \in raw)
            /\ raw \in {{}, 0..10} => ~unit.ret.id.ext
            /\ raw \in {{11}, {31}} => unit.ret.id.ext

\* parse_id has parsed 0x800, the lowest extended identifier
C11_Witness ==
    /\ unit.op = "parse_id" /\ unit.done /\ ~unit.ret.panic
    /\ unit.ret.id.id = {11} /\ unit.ret.id.ext /\ ~unit.ret.id.err /\ ~unit.ret.id.rtr

\* the frame of line i is that of an identifier that is not extended
NonExtFrame(i) == results[i].tag = "frame" /\ ~results[i].msg.id.ext

\* C12 (as claimed): the frame of an identifier that is not extended has sa = 0,
\* da = 255 and pgn = 0 and an empty SPN map.
C12_NonExtendedDefaults ==
    \A i \in LineIdx :
        NonExtFrame(i) =>
            /\ results[i].msg.id.sa = 0
            /\ results[i].msg.id.da = 255
            /\ results[i].msg.id.pgn = 0
            /\ results[i].msg.data.spns = EmptyMap

\* C12 (amended): the frame of an identifier that is not extended has sa = 0,
\* da = 0 and pgn = 0 (the values of CANMessage::default) and an empty SPN map,
\* with or without an annex; and the step that yields it is the step that took
\* the line, which leaves the cache, its read guards and the inserts as they were.
C12_NonExtendedKeepsDefaults ==
    /\ [](\A i \in LineIdx :
            NonExtFrame(i) =>
                /\ results[i].msg.id.sa = 0
                /\ results[i].msg.id.da = 0
                /\ results[i].msg.id.pgn = 0
                /\ results[i].msg.data.spns = EmptyMap)
    /\ [][\A i \in LineIdx :
            (results[i].tag = "pending" /\ NonExtFrame(i)') =>
                /\ i \notin taken
                /\ cache' = cache /\ readers' = readers /\ inserts' = inserts]_vars

\* with the JSON annex present and PGN 61444 cached by an earlier line, the
\* line with identifier 123 gave a frame
C12_Witness ==
    /\ specs.present /\ specs.j1939.kind = "json"
    /\ 61444 \in DOMAIN cache
    /\ \E i \in LineIdx :
          /\ NonExtFrame(i)
          /\ results[i].msg.id.id = {0, 1, 5, 8}
          /\ results[i].msg.data.len = 4

\* the lines that gave a frame
FrameLines == {i \in LineIdx : results[i].tag = "frame"}

\* C13: when the sequential run has returned, messages lists the frames of the
\* lines that gave one in the order of the lines: the k-th message is the frame
\* of the k-th such line and carries that line's timestamp.
C13_SequentialOrder ==
    (~parallel /\ Returned) =>
        \E f \in [1..Len(messages) -> LineIdx] :
            /\ \A k, l \in 1..Len(messages) : k < l => f[k] < f[l]
            /\ {f[k] : k \in 1..Len(messages)} = FrameLines
            /\ \A k \in 1..Len(messages) :
                  /\ messages[k] = results[f[k]].msg
                  /\ messages[k].ts = lines[f[k]].ts.val

\* the sequential run returned two frames of different lines, the later
\* timestamp first as in the input
C13_Witness ==
    /\ ~parallel /\ Returned
    /\ Len(messages) = 2
    /\ messages[1].ts > messages[2].ts

\* C14: the cache only grows: a PGN that is in the cache is in it after every
\* step, with the layout it had (a repeated insert stores an equal layout).
C14_CacheMonotone ==
    [][\A p \in DOMAIN cache : p \in DOMAIN cache' /\ cache'[p] = cache[p]]_vars

\* two workers have inserted the same PGN, and the cache holds its one layout
C14_Witness ==
    /\ BagCardinality(inserts) = 2
    /\ Cardinality(DOMAIN cache) = 1
    /\ \A p \in DOMAIN cache : CopiesIn(p, inserts) = 2 /\ DOMAIN cache[p].spns # {}

\* C15: deserializing the serialized form of a decoded payload succeeds and
\* gives back its len, its 64 bytes and its SPN keys (values up to rounding).
C15_RoundTrip ==
    (unit.op = "round_trip" /\ unit.done) =>
        /\ unit.ret.res = "ok"
        /\ unit.ret.data.len = unit.arg.len
        /\ unit.ret.data.data = unit.arg.data
        /\ DOMAIN unit.ret.data.spns = DOMAIN unit.arg.spns
        /\ \A k \in DOMAIN unit.arg.spns : unit.ret.data.spns[k] = RoundMilli(unit.arg.spns[k])

\* C16: the serialized `data` of a payload is the upper-case hex of its first
\* len bytes, 2 * len digits whatever the bytes are, and empty when len = 0.
C16_DataIsHexOfLenBytes ==
    (unit.op = "serialize" /\ unit.done) =>
        /\ unit.ret.res = "ok"
        /\ Len(unit.ret.data) = 2 * unit.arg.len
        /\ \A j \in 1..unit.arg.len :
              16 * unit.ret.data[2 * j - 1] + unit.ret.data[2 * j] = unit.arg.data[j]
        /\ \A k \in 1..Len(unit.ret.data) : unit.ret.data[k] \in HexDigits

\* str followed by spaces up to the width n
SpacePadded(str, n) == [k \in 1..n |-> IF k <= Len(str) THEN str[k] ELSE " "]

\* C17: a string no longer than the width is copied and space-padded; a longer
\* all-uppercase string is cut to the width; any other loses its spaces, then
\* (if still longer) its vowels, then (if still longer) its tail, and is
\* space-padded. "Engine Speed" into 10 gives "EnginSpeed" and "ENGINE" into 4
\* gives "ENGI".
C17_FixedWidthCoercion ==
    (unit.op = "string_to_slice" /\ unit.done) =>
        LET str == unit.arg.input
            n   == unit.arg.len
            s1  == SelectSeq(str, LAMBDA c : c # " ")
            s2  == IF Len(s1) > n THEN SelectSeq(s1, LAMBDA c : c \notin AsciiVowels) ELSE s1
            s3  == IF Len(s2) > n THEN SubSeq(s2, 1, n) ELSE s2
        IN  /\ unit.ret = IF Len(str) <= n THEN SpacePadded(str, n)
                          ELSE IF \A k \in 1..Len(str) : \A j \in 1..26 : str[k] # LowerCase[j]
                          THEN SubSeq(str, 1, n)
                          ELSE SpacePadded(s3, n)
            /\ (str = <<"E", "n", "g", "i", "n", "e", " ", "S", "p", "e", "e", "d">> /\ n = 10) => unit.ret = <<"E", "n", "g", "i", "n", "S", "p", "e", "e", "d">>
            /\ (str = <<"E", "N", "G", "I", "N", "E">> /\ n = 4) => unit.ret = <<"E", "N", "G", "I">>

\* C18: the command-line front end exits with code 1 when a fatal error
\* occurs (unreadable input, bad line pattern, unknown spec key, existing
\* output without --force, sink failure) and with 0 otherwise, warnings included.
C18_ExitCode ==
    (unit.op = "main" /\ unit.done) =>
        LET a     == unit.arg
            fatal == \/ ~a.file_ok \/ ~a.regex_ok \/ ~a.specs_ok
                     \/ a.has_output /\ a.output_exists /\ ~a.force
                     \/ ~a.sink_ok
        IN  unit.ret = IF fatal THEN 1 ELSE 0

\* C19: the keys of the cache are keys of the annex's PGN database: a PGN the
\* annex has no entry for is never cached.
C19_CacheWithinAnnex ==
    DOMAIN cache \subseteq DOMAIN specs.j1939.pgndb

\* C20: when a run has returned, the cache has an entry for the PGN of every
\* frame with a non-empty SPN map, and the frame's SPN keys are among the keys
\* of that entry's SPN layouts.
C20_FrameSpnsWithinCache ==
    Returned =>
        \A k \in 1..Len(messages) :
            messages[k].data.spns # EmptyMap =>
                /\ messages[k].id.pgn \in DOMAIN cache
                /\ DOMAIN messages[k].data.spns
                       \subseteq DOMAIN cache[messages[k].id.pgn].spns

\* a parallel run returned a frame of PGN 61444 with SPNs 190 and 899 decoded
C20_Witness ==
    /\ parallel /\ Returned
    /\ \E k \in 1..Len(messages) :
          /\ messages[k].id.pgn = 61444
          /\ DOMAIN messages[k].data.spns = {190, 899}

\* bit b of a payload
PayloadBit(data, b) == (data.data[(b \div 8) + 1] \div Pow2(b % 8)) % 2

RECURSIVE BitSum(_, _, _, _)
BitSum(data, start_bit, length, i) ==
    IF i >= length THEN 0
    ELSE PayloadBit(data, start_bit + i) * Pow2(i) + BitSum(data, start_bit, length, i + 1)

\* the unit call extracted without scaling: resolution 1, offset 0, no wrap
Unscaled == unit.arg.scaling = <<1, 0, 1048576>>

\* the bits of the SPN lie inside the payload of the frame
InsidePayload == unit.arg.start_bit + unit.arg.length <= 8 * unit.arg.data.len

\* C21: for an SPN whose bits lie inside the payload, the raw value is the sum
\* of bit (start_bit + i) of the payload times 2^i over i < length, also for a
\* short SPN in a high byte and for an SPN that crosses a byte boundary.
C21_RawValueIsBitSum ==
    (unit.op = "extract" /\ unit.done /\ Unscaled /\ InsidePayload) =>
        /\ ~unit.ret.panic
        /\ unit.ret.value = BitSum(unit.arg.data, unit.arg.start_bit, unit.arg.length, 0)

\* the SPN would overrun the payload of the frame
Overruns == unit.arg.start_bit + unit.arg.length > 8 * unit.arg.data.len

\* C22: for an SPN that would overrun the frame's payload the extractor returns
\* a value, the one it extracts with the bit length payload_len - 1, payload_len
\* being the length of that frame's payload.
C22_ClampToPayloadLen ==
    (unit.op = "extract" /\ unit.done /\ Unscaled /\ Overruns) =>
        /\ ~unit.ret.panic
        /\ unit.ret.value =
              RawValue(unit.arg.data.data, unit.arg.start_bit, unit.arg.data.len - 1, 0)

\* the unit call returned an SPN value
Extracted == unit.op = "extract" /\ unit.done /\ ~unit.ret.panic

\* C23 (as claimed): a decoded SPN value lies between the layout's offset and
\* offset + 2^length * resolution.
C23_ValueInInterval ==
    Extracted =>
        LET res == unit.arg.scaling[1]
            off == unit.arg.scaling[2]
        IN  /\ unit.ret.value >= off
            /\ unit.ret.value <= off + Pow2(unit.arg.length) * res

\* C23 (amended): for a layout with resolution >= 0 and max >= 0 a decoded SPN
\* value lies between min(offset, 0) and offset + 2^length * resolution: a value
\* that was wrapped is above 0 but can be below the offset.
C23_ValueInWrappedInterval ==
    (Extracted /\ unit.arg.scaling[1] >= 0 /\ unit.arg.scaling[3] >= 0) =>
        LET res == unit.arg.scaling[1]
            off == unit.arg.scaling[2]
        IN  /\ unit.ret.value >= Min(off, 0)
            /\ unit.ret.value <= off + Pow2(unit.arg.length) * res

\* an SPN with offset 5 and max 10 was decoded to a wrapped value below its offset
C23_Witness ==
    /\ Extracted
    /\ unit.arg.scaling = <<1, 5, 10>>
    /\ unit.ret.value > 0 /\ unit.ret.value < 5

\* the J1939 annex is a JSON document with a PGN database
JsonLoaded == specs.present /\ specs.j1939.kind = "json" /\ specs.j1939.hasPgnDb

\* lines i and j gave frames of the same PGN with the same payload
SameFrames(i, j) ==
    /\ results[i].tag = "frame" /\ results[j].tag = "frame"
    /\ results[i].msg.id.ext /\ results[j].msg.id.ext
    /\ results[i].msg.id.pgn = results[j].msg.id.pgn
    /\ results[i].msg.data.len = results[j].msg.data.len
    /\ results[i].msg.data.data = results[j].msg.data.data

\* C24: two frames of the same PGN with the same payload have the same SPN map,
\* whichever of them was decoded on a hit and in any interleaving; and with the
\* annex loaded their PGN is cached, as the only entry when all the lines of
\* the run are the same line.
C24_DecodeIndependentOfCache ==
    \A i, j \in LineIdx :
        (i # j /\ SameFrames(i, j)) =>
            /\ results[i].msg.data.spns = results[j].msg.data.spns
            /\ JsonLoaded =>
                  /\ results[i].msg.id.pgn \in DOMAIN cache
                  /\ (\A k \in LineIdx : lines[k] = lines[i]) =>
                        DOMAIN cache = {results[i].msg.id.pgn}

\* two identical lines of PGN 61444 were decoded in parallel, one on a miss
\* and one on a hit, to the same non-empty SPN map
C24_Witness ==
    /\ parallel /\ Returned /\ Len(lines) = 2
    /\ lines[1] = lines[2]
    /\ SameFrames(1, 2)
    /\ results[1].msg.data.spns # EmptyMap
    /\ BagCardinality(inserts) = 1

\* a finished lookup, in a JSON annex with both databases, of a PGN that has
\* an entry in J1939PGNdb
LookedUp ==
    /\ unit.op = "lookup" /\ unit.done
    /\ unit.arg.annex.kind = "json" /\ unit.arg.annex.hasPgnDb /\ unit.arg.annex.hasSpnDb
    /\ unit.arg.id.pgn \in DOMAIN unit.arg.annex.pgndb

PgnEntry == unit.arg.annex.pgndb[unit.arg.id.pgn]

\* the entry of the PGN and the entries of its SPNs have every required key
EntriesComplete ==
    /\ PgnEntry.fields = PgnFields
    /\ \A k \in DOMAIN PgnEntry.SPNs :
          PgnEntry.SPNs[k] \in DOMAIN unit.arg.annex.spndb =>
              unit.arg.annex.spndb[PgnEntry.SPNs[k]].fields = SpnFields

\* C25: the layout a lookup returns for a JSON entry holds every SPN of `SPNs`
\* that J1939SPNdb defines and no other; its start bit is the element of
\* SPNStartBits at the index of the SPN, and 0 without SPNStartBits.
C25_LayoutOfSpns ==
    (LookedUp /\ EntriesComplete) =>
        /\ unit.ret.tag = "ok"
        /\ DOMAIN unit.ret.pgn.spns =
              {PgnEntry.SPNs[k] : k \in DOMAIN PgnEntry.SPNs} \cap DOMAIN unit.arg.annex.spndb
        /\ \A k \in DOMAIN PgnEntry.SPNs :
              PgnEntry.SPNs[k] \in DOMAIN unit.ret.pgn.spns =>
                  unit.ret.pgn.spns[PgnEntry.SPNs[k]].start_bit =
                      IF PgnEntry.hasStartBits THEN PgnEntry.SPNStartBits[k] ELSE 0

\* C26: a lookup of an entry that lacks a required key returns an error value
\* and does not panic.
C26_MissingFieldIsError ==
    (LookedUp /\ ~EntriesComplete) => unit.ret.tag = "err"

\* C27: coercing a coerced field again into the same width, as the padded
\* field, as its trimmed text, or through serialization and deserialization,
\* gives the same field bytes.
C27_CoercionIdempotent ==
    (unit.op = "re_coerce" /\ unit.done) =>
        /\ unit.ret.again = unit.ret.field
        /\ unit.ret.trimmed = unit.ret.field
        /\ unit.ret.serde = unit.ret.field

\* no worker asks for the write lock of the cache while it is a reader of it
NoLockUpgrade == \A w \in Workers : pc[w] = "miss" => w \notin readers

\* every reader of the cache is a worker about to drop its read guard, so a
\* worker waiting for the write lock never waits for ever
ReadersLeave == \A r \in readers : pc[r] = "release"

\* line i ended as a frame, as an error handled by the policy, or in the abort
\* the policy asks for under a mode that is neither ignore nor warn
PolicyOutcome(i) ==
    \/ results[i].tag \in {"frame", "err"}
    \/ results[i].tag = "panic" /\ results[i].reason = "mode"

\* C28: a worker never asks for the cache write lock while it holds the read
\* lock, every reader is about to release it (so no run deadlocks), and every
\* line that ended is a frame or an outcome of the error policy.
C28_NoUpgradeEveryLineEnds ==
    unit = NoCall =>
        /\ NoLockUpgrade
        /\ ReadersLeave
        /\ \A i \in DOMAIN results : Settled(i) => PolicyOutcome(i)

\* C29: for every layout the index start_bit + i of every extracted bit is at
\* most 255, its byte lies inside the 64-byte buffer, and the extractor
\* returns a value.
C29_IndexArithmeticInRange ==
    (unit.op = "extract" /\ unit.done) =>
        /\ \A i \in 0..(ExtractLen(unit.arg.length) - 1) :
              /\ unit.arg.start_bit + i <= 255
              /\ ((unit.arg.start_bit + i) % 256) \div 8 < PayloadSize
        /\ ~unit.ret.panic

\* the keys of the annex map that are "j1939" ignoring ASCII case
J1939Keys == {k \in DOMAIN unit.arg.map : KeyToAsciiLowercase(k) = SPEC_TYPE_J1939}

\* a parser was constructed from an annex map with such a key
NewWithJ1939Key ==
    /\ unit.op = "new" /\ unit.done /\ unit.arg.has
    /\ unit.ret.res = "ok"
    /\ J1939Keys # {}

\* C30: a parser constructed from an annex map with a key equal to "j1939"
\* ignoring ASCII case has the annex of that key loaded and decodes the SPNs
\* of an extended frame with it.
C30_AcceptedKeyIsLoaded ==
    NewWithJ1939Key =>
        /\ unit.ret.specs.present
        /\ unit.ret.specs.j1939 \in {unit.arg.map[k] : k \in J1939Keys}
        /\ (\A k \in J1939Keys : unit.arg.map[k] = JsonAnnex) =>
              ParseLineInner(LineEEC1, unit.ret.specs, EmptyMap, FALSE).msg.data.spns
                  # EmptyMap

====
